---- MODULE Spec2Model ----
(***************************************************************************)
(* VoiceCLIP (codes/models/gpt_voice/voice_clip.py): a contrastive         *)
(* dual-encoder over text tokens and speech tokens.                        *)
(*                                                                         *)
(* Numbers.  A torch float is modelled as a fixed-point integer with Scale *)
(* units per 1.0, finite in -FMax..FMax, plus the three IEEE specials      *)
(* PosInf, NegInf and NaN, encoded right above the finite range.  Every    *)
(* arithmetic operator below rounds to the nearest unit, overflows to an   *)
(* infinity and propagates NaN the way IEEE arithmetic does.               *)
(***************************************************************************)
EXTENDS Integers, Sequences, FiniteSets, TLC

Scale == 1000
FMax == 30000

PosInf == FMax + 1
NegInf == 0 - (FMax + 1)
NaN == FMax + 2

IsNaN(x) == x = NaN
IsInf(x) == x = PosInf \/ x = NegInf
IsFinite(x) == ~IsNaN(x) /\ ~IsInf(x)

Abs(n) == IF n < 0 THEN 0 - n ELSE n
Sign(n) == IF n < 0 THEN 0 - 1 ELSE IF n > 0 THEN 1 ELSE 0

\* n / d rounded to the nearest integer, ties away from zero (d > 0).
RoundDiv(n, d) == IF n >= 0 THEN (2 * n + d) \div (2 * d)
                  ELSE 0 - ((2 * (0 - n) + d) \div (2 * d))

\* Overflow of a finite result to an infinity.
Saturate(n) == IF n > FMax THEN PosInf ELSE IF n < 0 - FMax THEN NegInf ELSE n

FNeg(a) == IF IsNaN(a) THEN NaN
           ELSE IF a = PosInf THEN NegInf
           ELSE IF a = NegInf THEN PosInf
           ELSE 0 - a

FAdd(a, b) == IF IsNaN(a) \/ IsNaN(b) THEN NaN
              ELSE IF IsInf(a) /\ IsInf(b) THEN (IF a = b THEN a ELSE NaN)
              ELSE IF IsInf(a) THEN a
              ELSE IF IsInf(b) THEN b
              ELSE Saturate(a + b)

FSub(a, b) == FAdd(a, FNeg(b))

FMul(a, b) == IF IsNaN(a) \/ IsNaN(b) THEN NaN
              ELSE IF IsInf(a) \/ IsInf(b)
                   THEN (IF a = 0 \/ b = 0 THEN NaN
                         ELSE IF Sign(a) = Sign(b) THEN PosInf ELSE NegInf)
              ELSE Saturate(RoundDiv(a * b, Scale))

FDiv(a, b) == IF IsNaN(a) \/ IsNaN(b) THEN NaN
              ELSE IF IsInf(a) /\ IsInf(b) THEN NaN
              ELSE IF IsInf(a) THEN (IF Sign(a) * (IF b < 0 THEN 0 - 1 ELSE 1) > 0
                                     THEN PosInf ELSE NegInf)
              ELSE IF IsInf(b) THEN 0
              ELSE IF b = 0 THEN (IF a = 0 THEN NaN
                                  ELSE IF a > 0 THEN PosInf ELSE NegInf)
              ELSE Saturate(Sign(b) * RoundDiv(a * Scale, Abs(b)))

\* The count clamped to at least 1 before the division.
FDivCountClamped(a, n) == IF IsNaN(a) THEN NaN
                          ELSE IF IsInf(a) THEN a
                          ELSE RoundDiv(a, IF n = 0 THEN 1 ELSE n)

\* A float divided by an integer count (a LongTensor promoted to float).
FDivCount(a, n) == IF IsNaN(a) THEN NaN
                   ELSE IF n = 0 THEN (IF IsInf(a) THEN a
                                       ELSE IF a = 0 THEN NaN
                                       ELSE IF a > 0 THEN PosInf ELSE NegInf)
                   ELSE IF IsInf(a) THEN a
                   ELSE RoundDiv(a, n)

\* max of two floats as torch.max / clamp_min compute it: NaN propagates.
FMax2(a, b) == IF IsNaN(a) \/ IsNaN(b) THEN NaN
               ELSE IF a = PosInf \/ b = PosInf THEN PosInf
               ELSE IF a = NegInf THEN b
               ELSE IF b = NegInf THEN a
               ELSE IF a >= b THEN a ELSE b

\* The integer square root of n >= 0, rounded to the nearest integer.
RECURSIVE SqrtSearch(_, _, _)
SqrtSearch(n, lo, hi) ==
    IF lo >= hi THEN lo
    ELSE LET mid == (lo + hi + 1) \div 2
         IN IF mid * mid <= n THEN SqrtSearch(n, mid, hi)
            ELSE SqrtSearch(n, lo, mid - 1)

ISqrt(n) == LET r == SqrtSearch(n, 0, 46340)
            IN IF n - r * r > r THEN r + 1 ELSE r

\* exp(-y) for a fixed-point y >= 0: halve the argument down to 1/2, take the
\* series there and square back up.  Underflows to 0 as the float exp does.
RECURSIVE ExpNeg(_)
ExpNeg(y) ==
    IF y >= 16 * Scale THEN 0
    ELSE IF y > Scale \div 2
         THEN LET h == ExpNeg(y \div 2)
                  sq == RoundDiv(h * h, Scale)
              IN IF y % 2 = 0 THEN sq ELSE RoundDiv(sq * (Scale - 1), Scale)
    ELSE LET t1 == y
             t2 == RoundDiv(t1 * y, 2 * Scale)
             t3 == RoundDiv(t2 * y, 3 * Scale)
             t4 == RoundDiv(t3 * y, 4 * Scale)
             t5 == RoundDiv(t4 * y, 5 * Scale)
         IN Scale - t1 + t2 - t3 + t4 - t5

\* exp(y) for a fixed-point y >= 0; overflows to +inf above the finite range.
RECURSIVE ExpPos(_)
ExpPos(y) ==
    IF y >= 11 * Scale THEN PosInf
    ELSE IF y > Scale \div 2
         THEN LET h == ExpPos(y \div 2)
              IN IF h = PosInf THEN PosInf
                 ELSE LET sq == RoundDiv(h * h, Scale)
                      IN Saturate(IF y % 2 = 0 THEN sq
                                  ELSE RoundDiv(sq * (Scale + 1), Scale))
    ELSE LET t1 == y
             t2 == RoundDiv(t1 * y, 2 * Scale)
             t3 == RoundDiv(t2 * y, 3 * Scale)
             t4 == RoundDiv(t3 * y, 4 * Scale)
             t5 == RoundDiv(t4 * y, 5 * Scale)
         IN Scale + t1 + t2 + t3 + t4 + t5

FExp(a) == IF IsNaN(a) THEN NaN
           ELSE IF a = PosInf THEN PosInf
           ELSE IF a = NegInf THEN 0
           ELSE IF a >= 0 THEN ExpPos(a) ELSE ExpNeg(0 - a)

\* ln(s) for a finite s > 0, by ln(s) = 2 atanh((s - 1) / (s + 1)).
LogSeries(s) ==
    LET z == RoundDiv((s - Scale) * Scale, s + Scale)
        z2 == RoundDiv(z * z, Scale)
        p3 == RoundDiv(z * z2, Scale)
        p5 == RoundDiv(p3 * z2, Scale)
        p7 == RoundDiv(p5 * z2, Scale)
        p9 == RoundDiv(p7 * z2, Scale)
    IN 2 * z + RoundDiv(2 * p3, 3) + RoundDiv(2 * p5, 5)
         + RoundDiv(2 * p7, 7) + RoundDiv(2 * p9, 9)

FLog(a) == IF IsNaN(a) THEN NaN
           ELSE IF a = PosInf THEN PosInf
           ELSE IF a < 0 THEN NaN
           ELSE IF a = 0 THEN NegInf
           ELSE LogSeries(a)

(***************************************************************************)
(* Tensors: a vector is a sequence of floats, a matrix a sequence of       *)
(* vectors, a batch of token ids a sequence of sequences of integers.      *)
(***************************************************************************)
RECURSIVE SumSeq(_)
SumSeq(s) == IF s = <<>> THEN 0 ELSE FAdd(Head(s), SumSeq(Tail(s)))

RECURSIVE IntSum(_)
IntSum(s) == IF s = <<>> THEN 0 ELSE Head(s) + IntSum(Tail(s))

VecAdd(u, v) == [k \in 1..Len(u) |-> FAdd(u[k], v[k])]

Dot(u, v) == SumSeq([k \in 1..Len(u) |-> FMul(u[k], v[k])])

\* Size-1 broadcasting of one dimension: the index used in an operand of size n.
BroadcastOK(m, n) == m = n \/ m = 1 \/ n = 1
Bidx(i, n) == IF n = 1 THEN 1 ELSE i
MaxOf(m, n) == IF m >= n THEN m ELSE n

\* Constructor arguments of the instance under study (small values of the
\* keyword parameters of VoiceCLIP.__init__).
dim_text == 2
dim_speech == 2
dim_latent == 2
num_text_tokens == 2
text_seq_len == 2
num_speech_tokens == 3
speech_seq_len == 2

\* nn.Embedding forward: row id of the table for each id; an id outside
\* 0..num_embeddings-1 is an IndexError.
EmbeddingOK(table, ids) ==
    \A i \in 1..Len(ids) : \A p \in 1..Len(ids[i]) :
        ids[i][p] >= 0 /\ ids[i][p] < Len(table)

Embedding(table, ids) ==
    [i \in 1..Len(ids) |-> [p \in 1..Len(ids[i]) |-> table[ids[i][p] + 1]]]

\* pos_emb(torch.arange(L)): rows 0..L-1 of the positional table.
PosLookupOK(table, L) == \A p \in 0..(L - 1) : p < Len(table)

\* emb += pos_emb(arange(L)), the L x d rows broadcast over the batch.
AddPositions(emb, table) ==
    [i \in 1..Len(emb) |-> [p \in 1..Len(emb[i]) |-> VecAdd(emb[i][p], table[p])]]

\* masked_mean(t, mask): t is b x L x d, mask is bm x Lm.
MaskedMeanOK(t, mask) ==
    /\ BroadcastOK(Len(mask), Len(t))
    /\ BroadcastOK(Len(mask[1]), Len(t[1]))

\* masked_fill with the mask not inverted: the real positions are zeroed.
MaskedFillNotInverted(t, mask) ==
    LET B == MaxOf(Len(t), Len(mask))
        L == MaxOf(Len(t[1]), Len(mask[1]))
    IN [i \in 1..B |-> [p \in 1..L |->
          IF mask[Bidx(i, Len(mask))][Bidx(p, Len(mask[1]))]
          THEN [k \in 1..Len(t[1][1]) |-> 0]
          ELSE t[Bidx(i, Len(t))][Bidx(p, Len(t[1]))]]]

MaskedFill(t, mask) ==
    LET B == MaxOf(Len(t), Len(mask))
        L == MaxOf(Len(t[1]), Len(mask[1]))
    IN [i \in 1..B |-> [p \in 1..L |->
          IF ~mask[Bidx(i, Len(mask))][Bidx(p, Len(mask[1]))]
          THEN [k \in 1..Len(t[1][1]) |-> 0]
          ELSE t[Bidx(i, Len(t))][Bidx(p, Len(t[1]))]]]

MaskCount(mask) ==
    [i \in 1..Len(mask) |->
        IntSum([p \in 1..Len(mask[i]) |-> IF mask[i][p] THEN 1 ELSE 0])]

SumOverSeq(x) ==
    [i \in 1..Len(x) |-> [k \in 1..Len(x[i][1]) |->
        SumSeq([p \in 1..Len(x[i]) |-> x[i][p][k]])]]

masked_mean(t, mask) ==
    LET filled == MaskedFill(t, mask)
        total == SumOverSeq(filled)
        count == MaskCount(mask)
    IN [i \in 1..Len(total) |-> [k \in 1..Len(total[i]) |->
          FDivCount(total[i][k], count[Bidx(i, Len(count))])]]

\* t.mean(dim=1)
MeanPool(t) ==
    LET total == SumOverSeq(t)
    IN [i \in 1..Len(t) |-> [k \in 1..Len(total[i]) |->
          FDivCount(total[i][k], Len(t[i]))]]

\* nn.Linear(d_in, d_out, bias=False): W is d_out x d_in, y = x W^T.
Linear(W, x) ==
    [i \in 1..Len(x) |-> [k \in 1..Len(W) |-> Dot(x[i], W[k])]]

\* The 2-norm of a vector.  The squares are summed exactly, so that only the
\* zero vector has norm 0.
Norm2(v) ==
    IF \E k \in 1..Len(v) : IsNaN(v[k]) THEN NaN
    ELSE IF \E k \in 1..Len(v) : IsInf(v[k]) THEN PosInf
    ELSE Saturate(ISqrt(IntSum([k \in 1..Len(v) |-> v[k] * v[k]])))

\* x / max(norm, eps) with eps = 1e-12, a positive number below one unit.
DivClampMin(x, norm) ==
    IF IsNaN(x) \/ IsNaN(norm) THEN NaN
    ELSE IF norm = 0
         THEN (IF x = 0 THEN 0 ELSE IF x > 0 THEN PosInf ELSE NegInf)
    ELSE FDiv(x, norm)

\* Normalisation by the 1-norm (p=1).
NormalizeP1(t) ==
    [i \in 1..Len(t) |-> [k \in 1..Len(t[i]) |->
        DivClampMin(t[i][k],
                    IF \E j \in 1..Len(t[i]) : ~IsFinite(t[i][j]) THEN Norm2(t[i])
                    ELSE IntSum([j \in 1..Len(t[i]) |-> Abs(t[i][j])]))]]

\* F.normalize(t, p=2, dim=-1)
Normalize(t) ==
    [i \in 1..Len(t) |-> [k \in 1..Len(t[i]) |-> DivClampMin(t[i][k], Norm2(t[i]))]]

\* einsum('n d, n d -> n', a, c) * temp
EinsumPairOK(a, c) == BroadcastOK(Len(a), Len(c))

\* The pair product with every text latent paired with the first speech latent.
EinsumPairFirst(a, c, temp) ==
    [n \in 1..MaxOf(Len(a), Len(c)) |-> FMul(Dot(a[Bidx(n, Len(a))], c[1]), temp)]

EinsumPair(a, c, temp) ==
    [n \in 1..MaxOf(Len(a), Len(c)) |->
        FMul(Dot(a[Bidx(n, Len(a))], c[Bidx(n, Len(c))]), temp)]

\* einsum('i d, j d -> i j', a, c) * temp
EinsumCross(a, c, temp) ==
    [i \in 1..Len(a) |-> [j \in 1..Len(c) |-> FMul(Dot(a[i], c[j]), temp)]]

\* The transposition left out.
NoTranspose(m) == m

\* sim.t()
Transpose(m) == [j \in 1..Len(m[1]) |-> [i \in 1..Len(m) |-> m[i][j]]]

\* torch.arange(b)
Arange(b) == [i \in 1..b |-> i - 1]

RECURSIVE MaxSeq(_)
MaxSeq(s) == IF Len(s) = 1 THEN s[1] ELSE FMax2(Head(s), MaxSeq(Tail(s)))

\* log_softmax without the shift by the maximum: x - log(sum(exp(x))).
LogSoftmaxUnshifted(row) ==
    LET lse == FLog(SumSeq([j \in 1..Len(row) |-> FExp(row[j])]))
    IN [j \in 1..Len(row) |-> FSub(row[j], lse)]

\* log_softmax of one row: x - max - log(sum(exp(x - max))).
LogSoftmax(row) ==
    LET m == MaxSeq(row)
        shifted == [j \in 1..Len(row) |-> FSub(row[j], m)]
        lse == FLog(SumSeq([j \in 1..Len(row) |-> FExp(shifted[j])]))
    IN [j \in 1..Len(row) |-> FSub(shifted[j], lse)]

\* F.cross_entropy(input, target), input N x C, reduction 'mean'.  A target of
\* another length than N is a ValueError, a class outside 0..C-1 an IndexError.
CrossEntropyErr(input, target) ==
    IF Len(input) # Len(target) THEN "ValueError"
    ELSE IF \E n \in 1..Len(target) : target[n] >= Len(input[1]) THEN "IndexError"
    ELSE ""

cross_entropy(input, target) ==
    LET picked == [n \in 1..Len(input) |-> LogSoftmax(input[n])[target[n] + 1]]
    IN FNeg(FDivCount(SumSeq(picked), Len(input)))


(***************************************************************************)
(* The model instance: its parameters, the encoder it calls, forward.      *)
(***************************************************************************)
\* A parameter tensor of the given shape filled from a seed and a per-tensor
\* salt (the random initialisation of nn.Embedding / nn.Linear; seed 0 is the
\* all-zero fill).
Fill(seed, salt, rows, cols) ==
    [r \in 1..rows |-> [c \in 1..cols |->
        seed * (((3 * r + 5 * c + salt * r * c + seed * r) % 7) - 3)
             * (Scale \div 8)]]

\* The constructor with the speech positional table sized to speech_seq_len.
ConstructSpeechSeqLen(seed, temperature) ==
    [text_emb         |-> Fill(seed, 1, num_text_tokens, dim_text),
     text_pos_emb     |-> Fill(seed, 2, text_seq_len, dim_text),
     to_text_latent   |-> Fill(seed, 3, dim_latent, dim_text),
     speech_emb       |-> Fill(seed, 4, num_speech_tokens, dim_speech),
     speech_pos_emb   |-> Fill(seed, 5, speech_seq_len, dim_speech),
     to_speech_latent |-> Fill(seed, 6, dim_latent, dim_speech),
     temperature      |-> temperature]

\* VoiceCLIP.__init__: the parameter tensors and their shapes.
Construct(seed, temperature) ==
    [text_emb         |-> Fill(seed, 1, num_text_tokens, dim_text),
     text_pos_emb     |-> Fill(seed, 2, text_seq_len, dim_text),
     to_text_latent   |-> Fill(seed, 3, dim_latent, dim_text),
     speech_emb       |-> Fill(seed, 4, num_speech_tokens, dim_speech),
     speech_pos_emb   |-> Fill(seed, 5, num_speech_tokens, dim_speech),
     to_speech_latent |-> Fill(seed, 6, dim_latent, dim_speech),
     temperature      |-> temperature]

\* self.temperature = nn.Parameter(torch.tensor(1.))
InitTemperature == Scale

\* The external Transformer(causal=False, ...): shape preserving, per example,
\* every position attends to every masked-in position (to all of them when no
\* mask is given or none is masked in).  A mask must be b x L.
TransformerOK(x, has_mask, mask) ==
    ~has_mask \/ (Len(mask) = Len(x) /\ Len(mask[1]) = Len(x[1]))

Transformer(x, has_mask, mask) ==
    [i \in 1..Len(x) |->
        LET L == Len(x[i])
            seen == IF has_mask /\ (\E q \in 1..L : mask[i][q])
                    THEN [q \in 1..L |-> mask[i][q]]
                    ELSE [q \in 1..L |-> TRUE]
            n == IntSum([q \in 1..L |-> IF seen[q] THEN 1 ELSE 0])
            ctx == [k \in 1..Len(x[i][1]) |->
                      FDivCount(SumSeq([q \in 1..L |->
                          IF seen[q] THEN x[i][q][k] ELSE 0]), n)]
        IN [p \in 1..L |-> VecAdd(x[i][p], ctx)]]

\* Tensor.exp() on self.temperature is out of place: the parameter keeps its
\* value (an in-place exp_() would overwrite it).
ParameterAfterExpInPlace(t) == FExp(t)
ParameterAfterExp(t) == t

\* emb(ids) returns a fresh tensor, so the in-place += of the positions
\* leaves the embedding table as it was.
TableAfterAddPositions(table, pos, L) == table

\* The stages of forward in program order.
ScoreStages ==
    <<"text_emb", "text_pos_emb", "speech_emb", "speech_pos_emb",
      "text_transformer", "speech_transformer", "pool_text", "pool_speech",
      "to_text_latent", "to_speech_latent", "normalize", "temperature_exp",
      "einsum_pair">>
LossStages ==
    <<"text_emb", "text_pos_emb", "speech_emb", "speech_pos_emb",
      "text_transformer", "speech_transformer", "pool_text", "pool_speech",
      "to_text_latent", "to_speech_latent", "normalize", "temperature_exp",
      "einsum_cross", "cross_entropy_text", "cross_entropy_speech">>

\* The stage list with each encoder run as soon as its embedding is ready
\* (the text encoded before the speech ids are looked up).
EagerStages(return_loss) ==
    LET s == IF return_loss THEN LossStages ELSE ScoreStages
    IN <<s[1], s[2], s[5], s[3], s[4], s[6]>> \o SubSeq(s, 7, Len(s))

ForwardStages(return_loss) == IF return_loss THEN LossStages ELSE ScoreStages

Index(s, x) == IF \E i \in 1..Len(s) : s[i] = x
               THEN CHOOSE i \in 1..Len(s) : s[i] = x ELSE 0

\* VoiceCLIP.forward(text, speech_tokens, text_mask, return_loss) on weights w.
\* The result records the stages that ran, the error raised (if any) and the
\* stage raising it, the intermediate tensors and the value returned.
forward(w, text, speech_tokens, has_mask, text_mask, return_loss) ==
    LET b == Len(text)
        stages == ForwardStages(return_loss)
        text_emb0 == Embedding(w.text_emb, text)
        text_emb == AddPositions(text_emb0, w.text_pos_emb)
        speech_emb0 == Embedding(w.speech_emb, speech_tokens)
        speech_emb == AddPositions(speech_emb0, w.speech_pos_emb)
        enc_text == Transformer(text_emb, has_mask, text_mask)
        enc_speech == Transformer(speech_emb, FALSE, <<>>)
        text_pooled == IF has_mask THEN masked_mean(enc_text, text_mask)
                       ELSE MeanPool(enc_text)
        speech_pooled == MeanPool(enc_speech)
        text_latents == Normalize(Linear(w.to_text_latent, text_pooled))
        speech_latents == Normalize(Linear(w.to_speech_latent, speech_pooled))
        temp == FExp(w.temperature)
        sim == EinsumCross(text_latents, speech_latents, temp)
        labels == Arange(b)
        StageErr(name) ==
            CASE name = "text_emb" ->
                   IF EmbeddingOK(w.text_emb, text) THEN "" ELSE "IndexError"
              [] name = "text_pos_emb" ->
                   IF PosLookupOK(w.text_pos_emb, Len(text[1])) THEN "" ELSE "IndexError"
              [] name = "speech_emb" ->
                   IF EmbeddingOK(w.speech_emb, speech_tokens) THEN "" ELSE "IndexError"
              [] name = "speech_pos_emb" ->
                   IF PosLookupOK(w.speech_pos_emb, Len(speech_tokens[1]))
                   THEN "" ELSE "IndexError"
              [] name = "text_transformer" ->
                   IF TransformerOK(text_emb, has_mask, text_mask)
                   THEN "" ELSE "RuntimeError"
              [] name = "pool_text" ->
                   IF ~has_mask \/ MaskedMeanOK(enc_text, text_mask)
                   THEN "" ELSE "RuntimeError"
              [] name = "einsum_pair" ->
                   IF EinsumPairOK(text_latents, speech_latents)
                   THEN "" ELSE "RuntimeError"
              [] name = "cross_entropy_text" -> CrossEntropyErr(sim, labels)
              [] name = "cross_entropy_speech" ->
                   CrossEntropyErr(Transpose(sim), labels)
              [] OTHER -> ""
        RECURSIVE FirstFail(_)
        FirstFail(i) == IF i > Len(stages) THEN 0
                        ELSE IF StageErr(stages[i]) # "" THEN i
                        ELSE FirstFail(i + 1)
        fail == FirstFail(1)
        ran == IF fail = 0 THEN stages ELSE SubSeq(stages, 1, fail)
        done(name) == Index(stages, name) # 0
                      /\ (fail = 0 \/ Index(stages, name) < fail)
    IN [steps |-> ran,
        err |-> IF fail = 0 THEN "" ELSE StageErr(stages[fail]),
        at |-> IF fail = 0 THEN "" ELSE stages[fail],
        enc_text |-> IF done("text_transformer") THEN enc_text ELSE <<>>,
        text_pooled |-> IF done("pool_text") THEN text_pooled ELSE <<>>,
        speech_pooled |-> IF done("pool_speech") THEN speech_pooled ELSE <<>>,
        text_latents |-> IF done("normalize") THEN text_latents ELSE <<>>,
        speech_latents |-> IF done("normalize") THEN speech_latents ELSE <<>>,
        temp |-> IF done("temperature_exp") THEN temp ELSE 0,
        sim |-> IF done("einsum_cross") THEN sim ELSE <<>>,
        returned |-> IF fail # 0 THEN "none"
                     ELSE IF return_loss THEN "loss" ELSE "score",
        scores |-> IF fail = 0 /\ ~return_loss
                   THEN EinsumPair(text_latents, speech_latents, temp) ELSE <<>>,
        loss |-> IF fail = 0 /\ return_loss
                 THEN FDivCount(FAdd(cross_entropy(sim, labels),
                                     cross_entropy(Transpose(sim), labels)), 2)
                 ELSE 0]

\* The parameters after a forward call whose result is out: every stage that
\* completed has had its effect on the tensors it touches.
Completed(out, name) == Index(out.steps, name) # 0 /\ out.at # name

WeightsAfterForward(w, text, speech_tokens, out) ==
    [w EXCEPT
       !.text_emb = IF Completed(out, "text_pos_emb")
                    THEN TableAfterAddPositions(@, w.text_pos_emb, Len(text[1]))
                    ELSE @,
       !.speech_emb = IF Completed(out, "speech_pos_emb")
                      THEN TableAfterAddPositions(@, w.speech_pos_emb,
                                                  Len(speech_tokens[1]))
                      ELSE @,
       !.temperature = IF Completed(out, "temperature_exp")
                       THEN ParameterAfterExp(@) ELSE @]

(***************************************************************************)
(* The callers: a training harness that calls forward on batches, and an   *)
(* optimizer that writes the parameters between calls.                     *)
(***************************************************************************)
MaxBatch == 2
MaxSeed == 2

\* The harness's dataset of (transcript, speech tokens) pairs.  Example 4 has
\* an empty transcript.
Dataset ==
    <<[text |-> <<0, 1>>, speech |-> <<2, 0>>],
      [text |-> <<1>>,    speech |-> <<1>>],
      [text |-> <<1, 1>>, speech |-> <<0, 1>>],
      [text |-> <<>>,     speech |-> <<2>>],
      [text |-> <<1, 0>>, speech |-> <<0>>],
      [text |-> <<0>>,    speech |-> <<1, 2>>]>>

RECURSIVE MaxLenOf(_)
MaxLenOf(seqs) == IF seqs = <<>> THEN 1
                  ELSE MaxOf(Len(Head(seqs)), MaxLenOf(Tail(seqs)))

\* Collation: every sequence padded with id 0 to the longest of the batch.
Pad(seqs) ==
    [i \in 1..Len(seqs) |-> [p \in 1..MaxLenOf(seqs) |->
        IF p <= Len(seqs[i]) THEN seqs[i][p] ELSE 0]]

\* The padding mask of a batch: true at the real positions.
PaddingMask(seqs) ==
    [i \in 1..Len(seqs) |-> [p \in 1..MaxLenOf(seqs) |-> p <= Len(seqs[i])]]

Args(text, speech_tokens, has_mask, text_mask, return_loss) ==
    [text |-> text, speech_tokens |-> speech_tokens, has_mask |-> has_mask,
     text_mask |-> text_mask, return_loss |-> return_loss]

\* Well-formed calls: a batch of dataset examples, with or without its
\* padding mask, in either mode.
ValidCalls ==
    UNION {
      {LET texts == [i \in 1..b |-> Dataset[pick[i]].text]
           speech == [i \in 1..b |-> Dataset[pick[i]].speech]
       IN Args(Pad(texts), Pad(speech), hm,
               IF hm THEN PaddingMask(texts) ELSE <<>>, rl) :
          pick \in [1..b -> 1..Len(Dataset)], hm \in BOOLEAN, rl \in BOOLEAN}
      : b \in 1..MaxBatch}

\* A batch of one id repeated, with its last entry replaced by v.
Filled(b, L, id, v) ==
    [i \in 1..b |-> [p \in 1..L |-> IF i = b /\ p = L THEN v ELSE id]]

\* Calls a buggy caller can make: an id outside the vocabulary, a sequence
\* longer than a table, batches of different sizes, a mask of another shape.
OddTexts ==
    {Filled(b, L, 0, v) : b \in 1..MaxBatch, L \in 1..(text_seq_len + 1),
                          v \in {0, num_text_tokens, 0 - 1}}
OddSpeech ==
    {Filled(b, L, 0, v) : b \in 1..MaxBatch,
                          L \in speech_seq_len..(num_speech_tokens + 1),
                          v \in {0, num_speech_tokens}}

AllTrue(b, L) == [i \in 1..b |-> [p \in 1..L |-> TRUE]]

\* Masks for a b x L text: of its shape, of another batch size, of another
\* length.
OddMasks(b, L) ==
    {AllTrue(b, L), AllTrue((b % MaxBatch) + 1, L),
     AllTrue(b, (L % (text_seq_len + 1)) + 1)}

OddCalls ==
    {Args(t, s, FALSE, <<>>, rl) : t \in OddTexts, s \in OddSpeech, rl \in BOOLEAN}
    \cup
    UNION {{Args(t, s, TRUE, m, rl) :
               s \in OddSpeech, m \in OddMasks(Len(t), Len(t[1])), rl \in BOOLEAN}
           : t \in OddTexts}

Calls == ValidCalls \cup OddCalls

\* The values the optimizer may leave in the temperature parameter: it is
\* unconstrained, so also one whose exponential overflows.
Temperatures == {InitTemperature, 0 - (Scale \div 2), 4 * Scale}

NoArgs == Args(<<>>, <<>>, FALSE, <<>>, FALSE)
NoOut == [steps |-> <<>>, err |-> "", at |-> "", enc_text |-> <<>>,
          text_pooled |-> <<>>, speech_pooled |-> <<>>, text_latents |-> <<>>,
          speech_latents |-> <<>>, temp |-> 0, sim |-> <<>>, returned |-> "none", scores |-> <<>>, loss |-> 0]

VARIABLES weights, call

vars == <<weights, call>>

\* After construction: randomly initialised tables, temperature 1.0, no call.
Init ==
    /\ weights \in {Construct(seed, InitTemperature) : seed \in 1..MaxSeed}
    /\ call = [made |-> FALSE, args |-> NoArgs, out |-> NoOut]

\* One call of forward by the harness, which holds no earlier result.
Forward ==
    /\ ~call.made
    /\ \E c \in Calls :
        LET out == forward(weights, c.text, c.speech_tokens, c.has_mask,
                           c.text_mask, c.return_loss)
        IN /\ call' = [made |-> TRUE, args |-> c, out |-> out]
           /\ weights' = WeightsAfterForward(weights, c.text, c.speech_tokens, out)

\* The harness is done with the call's result (or its exception).
Release ==
    /\ call.made
    /\ call' = [made |-> FALSE, args |-> NoArgs, out |-> NoOut]
    /\ UNCHANGED weights

\* One step of the external optimizer, between two calls: it rewrites the
\* parameters.
OptimizerStep ==
    /\ ~call.made
    /\ \E seed \in 0..MaxSeed, t \in Temperatures :
          /\ weights' = Construct(seed, t)
          /\ weights' # weights
    /\ UNCHANGED call

Next == Forward \/ Release \/ OptimizerStep

Spec == Init /\ [][Next]_vars

(***************************************************************************)
(* Properties.                                                             *)
(***************************************************************************)
Made == call.made
TextBatch == Len(call.args.text)
SpeechBatch == Len(call.args.speech_tokens)
TextLen == Len(call.args.text[1])
SpeechLen == Len(call.args.speech_tokens[1])

InvalidTextId ==
    \E i \in 1..TextBatch : \E p \in 1..TextLen :
        call.args.text[i][p] < 0 \/ call.args.text[i][p] >= num_text_tokens
InvalidSpeechId ==
    \E i \in 1..SpeechBatch : \E p \in 1..SpeechLen :
        call.args.speech_tokens[i][p] < 0
        \/ call.args.speech_tokens[i][p] >= num_speech_tokens

MaskShapeMatches ==
    /\ Len(call.args.text_mask) = TextBatch
    /\ Len(call.args.text_mask[1]) = TextLen

\* The call's arguments are the ones the interface asks for.
WellFormed ==
    /\ ~InvalidTextId /\ ~InvalidSpeechId
    /\ TextLen <= text_seq_len /\ SpeechLen <= num_speech_tokens
    /\ TextBatch = SpeechBatch
    /\ call.args.has_mask => MaskShapeMatches

Ran(name) == \E k \in 1..Len(call.out.steps) : call.out.steps[k] = name

DegenerateRow(i) == \A p \in 1..Len(call.args.text_mask[i]) : ~call.args.text_mask[i][p]
DegenerateMask ==
    call.args.has_mask /\ \E i \in 1..Len(call.args.text_mask) : DegenerateRow(i)
AllTrueMask ==
    call.args.has_mask
    /\ \A i \in 1..Len(call.args.text_mask) :
          \A p \in 1..Len(call.args.text_mask[i]) : call.args.text_mask[i][p]

SimFinite ==
    \A i \in 1..Len(call.out.sim) : \A j \in 1..Len(call.out.sim[i]) :
        IsFinite(call.out.sim[i][j])

\* C1: a forward call (the step from no call to a call made, whatever its mode,
\* mask and outcome) leaves every parameter tensor and the temperature as they
\* were.
C1_ForwardLeavesWeights ==
    [][(~call.made /\ call'.made) => weights' = weights]_vars

C1_Witness ==
    /\ Made /\ call.args.has_mask /\ call.out.returned = "loss"
    /\ IsFinite(call.out.loss) /\ call.out.loss > 0
    /\ Ran("text_pos_emb") /\ Ran("speech_pos_emb") /\ Ran("temperature_exp")

\* log(sum(exp(x))) of a sequence, shifted by its maximum.
LogSumExp(xs) ==
    LET m == MaxSeq(xs)
    IN FAdd(m, FLog(SumSeq([j \in 1..Len(xs) |-> FExp(FSub(xs[j], m))])))

\* The text -> speech cross-entropy of a b x b similarity matrix: the mean over
\* the texts i of -log softmax(row i)[i].
TextToSpeechCE(sim) ==
    FDivCount(SumSeq([i \in 1..Len(sim) |->
        FSub(LogSumExp([j \in 1..Len(sim) |-> sim[i][j]]), sim[i][i])]), Len(sim))

\* The speech -> text cross-entropy: the mean over the speeches j of
\* -log softmax(column j)[j].
SpeechToTextCE(sim) ==
    FDivCount(SumSeq([j \in 1..Len(sim) |->
        FSub(LogSumExp([i \in 1..Len(sim) |-> sim[i][j]]), sim[j][j])]), Len(sim))

LossCase == Made /\ call.out.returned = "loss" /\ TextBatch >= 2

LossIsMeanOfDirections ==
    /\ Len(call.out.sim) = TextBatch
    /\ \A i \in 1..TextBatch :
          /\ Len(call.out.sim[i]) = TextBatch
          /\ \A j \in 1..TextBatch :
                call.out.sim[i][j] =
                    FMul(Dot(call.out.text_latents[i], call.out.speech_latents[j]),
                         FExp(weights.temperature))
    /\ call.out.loss =
          FDivCount(FAdd(TextToSpeechCE(call.out.sim), SpeechToTextCE(call.out.sim)), 2)

SameCallInLossMode ==
    forward(weights, call.args.text, call.args.speech_tokens, call.args.has_mask,
            call.args.text_mask, TRUE).sim

ScoreCase == Made /\ call.out.returned = "score" /\ TextBatch = SpeechBatch

\* C3: in score mode with b texts and b speeches the value returned is a vector
\* of b scores, score i being exp(temperature) times the dot product of text
\* latent i and speech latent i: entry (i, i) of the similarity matrix loss
\* mode builds from the same inputs.
C3_ScoresAreTheDiagonal ==
    ScoreCase =>
        LET sim == SameCallInLossMode
        IN /\ Len(call.out.scores) = TextBatch
           /\ sim # <<>>
           /\ Len(sim) = TextBatch
           /\ \A i \in 1..TextBatch :
                 /\ call.out.scores[i] =
                       FMul(Dot(call.out.text_latents[i], call.out.speech_latents[i]),
                            FExp(weights.temperature))
                 /\ call.out.scores[i] = sim[i][i]

C3_Witness ==
    /\ ScoreCase /\ TextBatch = 2
    /\ IsFinite(call.out.scores[1]) /\ IsFinite(call.out.scores[2])
    /\ call.out.scores[1] # call.out.scores[2]
    /\ LET sim == SameCallInLossMode
       IN /\ sim # <<>>
          /\ sim[1][2] # call.out.scores[1]
          /\ sim[2][1] # call.out.scores[2]

SingleCase ==
    /\ Made /\ call.args.return_loss /\ TextBatch = 1 /\ SpeechBatch = 1
    /\ WellFormed

\* C4 as stated: with b = 1 in loss mode forward raises nothing and returns
\* exactly 0, whatever the ids and the temperature.
C4_Original ==
    SingleCase => (call.out.returned = "loss" /\ call.out.loss = 0)

\* C4 amended: with b = 1 in loss mode forward raises nothing; it returns
\* exactly 0 when the one similarity is finite, and NaN when it is not (the
\* exponential of the temperature overflowed, or the mask has no true position).
C4_SingleExampleLoss ==
    SingleCase =>
        /\ call.out.returned = "loss"
        /\ SimFinite => call.out.loss = 0
        /\ ~SimFinite => IsNaN(call.out.loss)
        /\ SimFinite <=> (IsFinite(FExp(weights.temperature)) /\ ~DegenerateMask)

C4_Witness ==
    /\ SingleCase /\ SimFinite /\ call.out.loss = 0
    /\ call.out.sim[1][1] # 0 /\ call.args.text[1] # <<0>>

\* The length of a vector as the 2-norm computes it.
LatentsOf(which) == IF which = "text" THEN call.out.text_latents
                    ELSE call.out.speech_latents
ProjectedOf(which) == IF which = "text"
                      THEN Linear(weights.to_text_latent, call.out.text_pooled)
                      ELSE Linear(weights.to_speech_latent, call.out.speech_pooled)

\* |norm(v) - 1| is within the rounding of a division by a norm of n units.
UnitWithin(v, n) ==
    /\ \A k \in 1..Len(v) : IsFinite(v[k])
    /\ Abs(Norm2(v) - Scale) <= 2 + (Scale \div n)

\* C5 as stated: whenever forward reaches the similarity step, every text
\* latent and every speech latent has norm 1.
C5_Original ==
    (Made /\ Ran("temperature_exp")) =>
        \A which \in {"text", "speech"} :
            \A i \in 1..Len(LatentsOf(which)) :
                LET v == LatentsOf(which)[i]
                IN /\ \A k \in 1..Len(v) : IsFinite(v[k])
                   /\ Abs(Norm2(v) - Scale) <= Scale \div 10

\* C5 amended: whenever forward reaches the similarity step, every latent whose
\* projection is finite and not the zero vector has norm 1 (within rounding);
\* the latent of a zero projection is the zero vector and the latent of a NaN
\* projection (an example whose mask has no true position) is NaN.
C5_LatentsAreUnitUnlessZeroOrNaN ==
    (Made /\ Ran("temperature_exp")) =>
        \A which \in {"text", "speech"} :
            /\ Len(LatentsOf(which)) = Len(ProjectedOf(which))
            /\ \A i \in 1..Len(LatentsOf(which)) :
                  LET v == LatentsOf(which)[i]
                      x == ProjectedOf(which)[i]
                      n == Norm2(x)
                  IN /\ (IsFinite(n) /\ n > 0) => UnitWithin(v, n)
                     /\ n = 0 => \A k \in 1..Len(v) : v[k] = 0
                     /\ IsNaN(n) => \A k \in 1..Len(v) : IsNaN(v[k])

C5_Witness ==
    /\ Made /\ Ran("temperature_exp") /\ TextBatch = 2 /\ SpeechBatch = 2
    /\ \A which \in {"text", "speech"} :
          \A i \in 1..2 :
              /\ Norm2(ProjectedOf(which)[i]) >= Scale \div 10
              /\ IsFinite(Norm2(ProjectedOf(which)[i]))
              /\ Abs(Norm2(ProjectedOf(which)[i]) - Scale) > Scale \div 10
              /\ Abs(Norm2(LatentsOf(which)[i]) - Scale) <= 2 + 10

\* C6: with a mask that is true everywhere, masked-mean pooling of the encoder
\* output gives what plain mean pooling over the sequence gives.
C6_AllTrueMaskIsPlainMean ==
    (Made /\ AllTrueMask /\ Ran("pool_text") /\ call.out.at # "pool_text") =>
        /\ call.out.text_pooled = MeanPool(call.out.enc_text)
        /\ \A i \in 1..TextBatch : \A k \in 1..dim_text :
              call.out.text_pooled[i][k] =
                  FDivCount(SumSeq([p \in 1..TextLen |-> call.out.enc_text[i][p][k]]),
                            TextLen)

C6_Witness ==
    /\ Made /\ AllTrueMask /\ Ran("pool_speech")
    /\ TextBatch = 2 /\ TextLen = 2
    /\ call.out.enc_text[1][1] # call.out.enc_text[1][2]
    /\ call.out.text_pooled[1] # call.out.text_pooled[2]
    /\ \A k \in 1..dim_text : call.out.text_pooled[1][k] # 0

\* C7: a mask with an example that has no true position raises nothing: that
\* example's pooled text vector is the non-finite result of dividing by a zero
\* count, and the value returned (its score, or the loss) is not finite.
C7_DegenerateMaskIsSilent ==
    (Made /\ DegenerateMask /\ WellFormed) =>
        /\ call.out.err = ""
        /\ \A i \in 1..TextBatch :
              DegenerateRow(i) =>
                  /\ \A k \in 1..dim_text : ~IsFinite(call.out.text_pooled[i][k])
                  /\ ~call.args.return_loss => ~IsFinite(call.out.scores[i])
        /\ call.args.return_loss =>
              (call.out.returned = "loss" /\ ~IsFinite(call.out.loss))
        /\ ~call.args.return_loss => call.out.returned = "score"

C7_Witness ==
    /\ Made /\ DegenerateMask /\ WellFormed /\ TextBatch = 2
    /\ ~DegenerateRow(1) /\ DegenerateRow(2)
    /\ call.out.returned = "score"
    /\ IsFinite(call.out.scores[1]) /\ IsNaN(call.out.scores[2])

EmbeddingStages == {"text_emb", "text_pos_emb", "speech_emb", "speech_pos_emb"}

\* C8: a text id or a speech id outside its vocabulary makes forward fail, in
\* either mode, with an index error raised by an embedding lookup before any
\* encoder, pooling or similarity stage runs; nothing is returned.
C8_InvalidIdFailsAtEmbedding ==
    (Made /\ (InvalidTextId \/ InvalidSpeechId)) =>
        /\ call.out.err = "IndexError"
        /\ call.out.at \in EmbeddingStages
        /\ \A k \in 1..Len(call.out.steps) : call.out.steps[k] \in EmbeddingStages
        /\ call.out.returned = "none"
        /\ call.out.scores = <<>> /\ call.out.enc_text = <<>>
        /\ InvalidTextId => call.out.at = "text_emb"

C8_Witness ==
    /\ Made /\ InvalidSpeechId /\ ~InvalidTextId /\ TextLen <= text_seq_len
    /\ call.args.return_loss
    /\ call.out.at = "speech_emb" /\ call.out.err = "IndexError"

\* C9 as stated: text and speech of different batch sizes, or a mask whose
\* batch size or length is not the text's, make forward fail in either mode.
C9_Original ==
    (Made /\ (TextBatch # SpeechBatch
              \/ (call.args.has_mask /\ ~MaskShapeMatches))) =>
        (call.out.err # "" /\ call.out.returned = "none")

\* C10: the positions 0..L-1 are looked up in a text table of text_seq_len
\* rows and a speech table of num_speech_tokens rows: the text lookup fails
\* exactly when L > text_seq_len, the speech lookup exactly when
\* L > num_speech_tokens, so a speech sequence of speech_seq_len < L <=
\* num_speech_tokens passes it.
C10_PositionalLookupBounds ==
    /\ Len(weights.text_pos_emb) = text_seq_len
    /\ Len(weights.speech_pos_emb) = num_speech_tokens
    /\ (Made /\ Ran("text_pos_emb")) =>
          (call.out.at = "text_pos_emb" <=> TextLen > text_seq_len)
    /\ (Made /\ Ran("speech_pos_emb")) =>
          /\ call.out.at = "speech_pos_emb" <=> SpeechLen > num_speech_tokens
          /\ (SpeechLen > speech_seq_len /\ SpeechLen <= num_speech_tokens)
                => Ran("text_transformer")
    /\ (Made /\ call.out.at \in {"text_pos_emb", "speech_pos_emb"}) =>
          call.out.err = "IndexError"

C10_Witness ==
    /\ Made /\ SpeechLen > speech_seq_len /\ SpeechLen <= num_speech_tokens
    /\ Ran("speech_pos_emb") /\ Ran("speech_transformer")
    /\ call.out.returned = "score"
====
